---------------------------- MODULE Spec2Model ----------------------------
(***************************************************************************)
(* A model of tap-ecbexchangerates: the ExchangeRate value type, the gap   *)
(* filler ECBClient._fill_missing_dates, the fetch get_exchange_rates, the *)
(* cross-rate RateCalculator and the stream's get_records with its         *)
(* resumption checkpoint.                                                  *)
(*                                                                         *)
(* Dates are day ordinals (datetime.date.toordinal, shifted so that        *)
(* 2020-12-01 is day 0).  Exchange rates are positive binary floating      *)
(* point numbers [m, e] of value m * 2^e with a Prec-bit significand and   *)
(* round-to-nearest-even, the arithmetic of a Python float at a precision  *)
(* small enough to enumerate.  Exponents are unbounded: overflow,          *)
(* underflow and a zero rate (ZeroDivisionError in invert) are outside the *)
(* model, rates being positive by the data model.                          *)
(***************************************************************************)
EXTENDS Integers, Sequences, FiniteSets, TLC

VARIABLES
    rb_args,      \* rebase: the call's arguments [self, new_base, lookup_rate]
    rb_result,    \* rebase: what the call returned or raised
    fill_data,    \* _fill_missing_dates: the data argument
    fill_end,     \* _fill_missing_dates: the end_date argument
    fill_out,     \* _fill_missing_dates: [done, complete_data, warnings]
    heap,         \* the lists of the calculator's caller and of the calculator, by reference
    pool,         \* the reference of the caller's rates list
    calc,         \* the RateCalculator: [pc, rates, i, by_date]
    calls,        \* the calculate_rebased_rates calls made so far
    state,        \* the stream's context state: [end_date |-> Some(date text) or None]
    config,       \* the tap's configuration: currencies, start_date, end_date
    today,        \* datetime.date.today()
    run           \* the get_records run in progress

vars == <<rb_args, rb_result, fill_data, fill_end, fill_out,
          heap, pool, calc, calls, state, config, today, run>>

---------------------------------------------------------------------------
(* Bounds *)

Prec == 4          \* bits of the significand (53 in a Python float)
MaxData == 3       \* entries of a _fill_missing_dates input
MaxPool == 3       \* observations of a calculator pool
MaxCalls == 2      \* calculate_rebased_rates calls on one calculator

---------------------------------------------------------------------------
(* Floating point: positive values m * 2^e, 2^(Prec-1) <= m < 2^Prec *)

RECURSIVE Pow2(_)
Pow2(n) == IF n <= 0 THEN 1 ELSE 2 * Pow2(n - 1)

\* The float nearest the positive rational (n / d) * 2^e, ties to even.
RECURSIVE Round(_, _, _)
Round(n, d, e) ==
    IF n < d * Pow2(Prec - 1) THEN Round(2 * n, d, e - 1)
    ELSE IF n >= d * Pow2(Prec) THEN Round(n, 2 * d, e + 1)
    ELSE LET q == n \div d
             r == n - q * d
             up == (2 * r > d) \/ (2 * r = d /\ q % 2 = 1)
             m == IF up THEN q + 1 ELSE q
         IN  IF m = Pow2(Prec) THEN [m |-> Pow2(Prec - 1), e |-> e + 1]
             ELSE [m |-> m, e |-> e]

FloatOf(n, d) == Round(n, d, 0)
One == FloatOf(1, 1)
FMul(x, y) == Round(x.m * y.m, 1, x.e + y.e)
FDiv(x, y) == Round(x.m, y.m, x.e - y.e)

Abs(k) == IF k < 0 THEN -k ELSE k

---------------------------------------------------------------------------
(* ExchangeRate *)

Pivot == "EUR"

ExchangeRate(d, b, t, r) ==
    [date |-> d, base_currency |-> b, target_currency |-> t, exchange_rate |-> r]

Triple(o) == <<o.date, o.base_currency, o.target_currency>>

Invert(self) ==
    ExchangeRate(self.date, self.target_currency, self.base_currency,
                 FDiv(One, self.exchange_rate))

Returned(v) == [kind |-> "return", value |-> v]
Raised(e) == [kind |-> "raise", value |-> e]
NotCalled == [kind |-> "none", value |-> "none"]
NoArgs == [kind |-> "none"]
None == <<>>      \* an Optional value: None, or Some(v)
Some(v) == <<v>>

RebaseNoBaseCheck(self, new_base_currency, lookup_rate) ==
    IF new_base_currency = self.base_currency THEN Returned(self)
    ELSE IF new_base_currency # lookup_rate.target_currency THEN Raised("ValueError")
    ELSE Returned(ExchangeRate(self.date, new_base_currency, self.target_currency,
                               FMul(FDiv(One, lookup_rate.exchange_rate),
                                    self.exchange_rate)))

RebaseInvertedQuotient(self, new_base_currency, lookup_rate) ==
    IF new_base_currency = self.base_currency THEN Returned(self)
    ELSE IF new_base_currency # lookup_rate.target_currency THEN Raised("ValueError")
    ELSE IF self.base_currency # lookup_rate.base_currency THEN Raised("ValueError")
    ELSE Returned(ExchangeRate(self.date, new_base_currency, self.target_currency,
                               FMul(FDiv(One, self.exchange_rate),
                                    lookup_rate.exchange_rate)))

Rebase(self, new_base_currency, lookup_rate) ==
    IF new_base_currency = self.base_currency THEN Returned(self)
    ELSE IF new_base_currency # lookup_rate.target_currency THEN Raised("ValueError")
    ELSE IF self.base_currency # lookup_rate.base_currency THEN Raised("ValueError")
    ELSE Returned(ExchangeRate(self.date, new_base_currency, self.target_currency,
                               FMul(FDiv(One, lookup_rate.exchange_rate),
                                    self.exchange_rate)))

---------------------------------------------------------------------------
(* ECBClient._fill_missing_dates *)

NoConversion == [known |-> FALSE]
Conversion(entry) == [known |-> TRUE, entry |-> entry]

\* {entry.date: entry for entry in data}: a later entry of a date replaces an
\* earlier one.
AllDates(data) ==
    [d \in {data[i].date : i \in DOMAIN data} |->
        data[CHOOSE i \in DOMAIN data :
                /\ data[i].date = d
                /\ \A j \in DOMAIN data : data[j].date = d => j <= i]]

MinDate(all_dates) ==
    CHOOSE d \in DOMAIN all_dates : \A x \in DOMAIN all_dates : d <= x

\* end_date or datetime.date.today(): a date is never falsy.
EndDateOrToday(end_date, now) == IF end_date = None THEN now ELSE end_date[1]

LoopContinuesExclusive(current_date, end_date) == current_date < end_date

LoopContinues(current_date, end_date) == current_date <= end_date

LastConversion(all_dates, current_date, last_conversion) ==
    IF current_date \in DOMAIN all_dates
    THEN Conversion(all_dates[current_date])
    ELSE last_conversion

\* The while loop from current_date on: the list built and the dates warned of.
RECURSIVE FillLoop(_, _, _, _, _, _)
FillLoop(all_dates, current_date, end_date, last_conversion, complete_data, warnings) ==
    IF ~LoopContinues(current_date, end_date)
    THEN [complete_data |-> complete_data, warnings |-> warnings]
    ELSE LET last == LastConversion(all_dates, current_date, last_conversion)
         IN  IF ~last.known
             THEN FillLoop(all_dates, current_date + 1, end_date, last,
                           complete_data, Append(warnings, current_date))
             ELSE FillLoop(all_dates, current_date + 1, end_date, last,
                           Append(complete_data,
                                  ExchangeRate(current_date, last.entry.base_currency,
                                               last.entry.target_currency,
                                               last.entry.exchange_rate)),
                           warnings)

\* min() of an empty dict raises ValueError.
FillMissingDates(data, end_date, now) ==
    IF data = <<>>
    THEN [kind |-> "raise", value |-> "ValueError", complete_data |-> <<>>,
          warnings |-> <<>>]
    ELSE LET all_dates == AllDates(data)
             filled == FillLoop(all_dates, MinDate(all_dates),
                                EndDateOrToday(end_date, now), NoConversion, <<>>, <<>>)
         IN  [kind |-> "return", value |-> "list",
              complete_data |-> filled.complete_data, warnings |-> filled.warnings]

---------------------------------------------------------------------------
(* RateCalculator *)

\* list.copy(): a new list of the same items.
ListAlias(h, ref) == [heap |-> h, ref |-> ref]

ListCopy(h, ref) == [heap |-> Append(h, h[ref]), ref |-> Len(h) + 1]

\* One iteration of  for rate in self.rates  at list index i: a rate based on
\* the pivot has its inverse appended to the list being iterated.
InvertIteration(rates, i) ==
    IF rates[i].base_currency = Pivot
    THEN Append(rates, Invert(rates[i]))
    ELSE rates

\* self.by_date, a dict in insertion order: a sequence of [date, rates].
RECURSIVE GroupByDate(_, _, _)
GroupByDate(rates, i, by_date) ==
    IF i > Len(rates) THEN by_date
    ELSE IF \E k \in DOMAIN by_date : by_date[k].date = rates[i].date
    THEN LET k == CHOOSE k \in DOMAIN by_date : by_date[k].date = rates[i].date
         IN  GroupByDate(rates, i + 1,
                         [by_date EXCEPT ![k].rates = Append(@, rates[i])])
    ELSE GroupByDate(rates, i + 1,
                     Append(by_date, [date |-> rates[i].date, rates |-> <<rates[i]>>]))

\* The last of the list indices in S: a dict keeps the last value of a key.
LastIndex(S) == CHOOSE i \in S : \A j \in S : j <= i

BaseRatesKeyedByBase(rates) ==
    [t \in {rates[i].base_currency : i \in {j \in DOMAIN rates :
                                            rates[j].base_currency = Pivot}} |->
        rates[LastIndex({i \in DOMAIN rates : rates[i].base_currency = Pivot})]]

\* {rate.target_currency: rate for rate in rates if base is the pivot}
BaseRates(rates) ==
    [t \in {rates[i].target_currency : i \in {j \in DOMAIN rates :
                                              rates[j].base_currency = Pivot}} |->
        rates[LastIndex({i \in DOMAIN rates :
                            rates[i].base_currency = Pivot
                            /\ rates[i].target_currency = t})]]

OutcomeKeyErrorUncaught(rate, new_base, base_rates) ==
    IF rate.base_currency # Pivot THEN [kind |-> "skip", value |-> "inversion"]
    ELSE IF rate.target_currency = new_base THEN [kind |-> "skip", value |-> "lookup"]
    ELSE IF new_base \notin DOMAIN base_rates THEN Raised("KeyError")
    ELSE Rebase(rate, new_base, base_rates[new_base])

\* The body of the innermost loop for one rate.
Outcome(rate, new_base, base_rates) ==
    IF rate.base_currency # Pivot THEN [kind |-> "skip", value |-> "inversion"]
    ELSE IF rate.target_currency = new_base THEN [kind |-> "skip", value |-> "lookup"]
    ELSE IF new_base \notin DOMAIN base_rates THEN [kind |-> "warn", value |-> "lookup"]
    ELSE Rebase(rate, new_base, base_rates[new_base])

\* for rate in rates, from the n-th on: acc is what has been appended and
\* warned of so far; an exception ends the loops.
RECURSIVE RatesLoop(_, _, _, _, _, _)
RatesLoop(rates, n, date, new_base, base_rates, acc) ==
    IF n > Len(rates) \/ acc.kind = "raise" THEN acc
    ELSE LET out == Outcome(rates[n], new_base, base_rates)
         IN  RatesLoop(rates, n + 1, date, new_base, base_rates,
                CASE out.kind = "return" -> [acc EXCEPT !.derived = Append(@, out.value)]
                  [] out.kind = "warn" ->
                        [acc EXCEPT !.warnings = Append(@, <<new_base, date>>)]
                  [] out.kind = "raise" -> [acc EXCEPT !.kind = "raise"]
                  [] OTHER -> acc)

\* for new_base in currencies, from the j-th on; the pivot is skipped.
RECURSIVE CurrenciesLoop(_, _, _, _, _)
CurrenciesLoop(entry, currencies, j, base_rates, acc) ==
    IF j > Len(currencies) \/ acc.kind = "raise" THEN acc
    ELSE CurrenciesLoop(entry, currencies, j + 1, base_rates,
            IF currencies[j] = Pivot THEN acc
            ELSE RatesLoop(entry.rates, 1, entry.date, currencies[j], base_rates, acc))

\* for date, rates in self.by_date.items(), from the k-th on.
RECURSIVE DatesLoop(_, _, _, _)
DatesLoop(by_date, k, currencies, acc) ==
    IF k > Len(by_date) \/ acc.kind = "raise" THEN acc
    ELSE DatesLoop(by_date, k + 1, currencies,
            CurrenciesLoop(by_date[k], currencies, 1, BaseRates(by_date[k].rates), acc))

\* calculate_rebased_rates without its copy of self.rates: what it appends,
\* the (new_base, date) it warns of, and whether it raises.
DerivedRates(by_date, currencies) ==
    DatesLoop(by_date, 1, currencies,
              [kind |-> "return", derived |-> <<>>, warnings |-> <<>>])

\* The whole inversion loop of the constructor, for a list it ends on.
RECURSIVE InvertLoop(_, _)
InvertLoop(rates, i) ==
    IF i > Len(rates) THEN rates ELSE InvertLoop(InvertIteration(rates, i), i + 1)

---------------------------------------------------------------------------
(* Dates as text, and ECBClient.get_exchange_rates *)

\* The calendar around the turn of 1999: day 0 is 1999-12-01.
Months ==
    <<[year |-> 1999, month |-> 12, first |-> 0, days |-> 31],
      [year |-> 2000, month |-> 1, first |-> 31, days |-> 31],
      [year |-> 2000, month |-> 2, first |-> 62, days |-> 29]>>

\* date.strftime("%Y-%m-%d"), the text as <<year, month, day>>
StrfTime(date) ==
    LET k == CHOOSE k \in DOMAIN Months :
                Months[k].first <= date /\ date < Months[k].first + Months[k].days
    IN  <<Months[k].year, Months[k].month, date - Months[k].first + 1>>

\* datetime.datetime.strptime(text, "%Y-%m-%d").date()
StrpTime(text) ==
    LET k == CHOOSE k \in DOMAIN Months :
                Months[k].year = text[1] /\ Months[k].month = text[2]
    IN  Months[k].first + text[3] - 1

max_tries == 5

\* get_exchange_rates for one response of the service: the status and the
\* observations, keyed by date text.
GetExchangeRates(target_currency, end_date, response) ==
    IF response.status >= 500 \/ response.status = 429
    THEN [kind |-> "raise", value |-> "HTTPError", complete_data |-> <<>>,
          warnings |-> <<>>]
    ELSE IF response.status >= 400
    THEN [kind |-> "raise", value |-> "ValueError", complete_data |-> <<>>,
          warnings |-> <<>>]
    ELSE FillMissingDates(
            [i \in DOMAIN response.data |->
                ExchangeRate(StrpTime(response.data[i][1]), "EUR", target_currency,
                             response.data[i][2])],
            Some(end_date), end_date)

---------------------------------------------------------------------------
(* ExchangeRatesStream.get_records *)

DefaultStartDate == <<2000, 1, 1>>
Lookback == 7

ResumeWithoutLookback(previous_end_date) == StrpTime(previous_end_date)

\* The start date of a run that finds a checkpoint.
ResumeStartDate(previous_end_date) == StrpTime(previous_end_date) - Lookback

StartDate(previous_end_date, cfg) ==
    IF previous_end_date # None
    THEN ResumeStartDate(previous_end_date[1])
    ELSE StrpTime(IF cfg.start_date = None THEN DefaultStartDate
                  ELSE cfg.start_date[1])

EndDate(cfg, now) ==
    IF cfg.end_date # None THEN StrpTime(cfg.end_date[1]) ELSE now

\* RateCalculator(rates).calculate_rebased_rates(currencies)
AllRates(rates, currencies) ==
    LET working == InvertLoop(rates, 1)
    IN  working \o DerivedRates(GroupByDate(working, 1, <<>>), currencies).derived

---------------------------------------------------------------------------
(* Input domains *)

\* The rates observations are given: 1.125 and 1.375.
RateList == <<FloatOf(9, 8), FloatOf(11, 8)>>
ExchangeRates == {RateList[i] : i \in DOMAIN RateList}


\* The values of the variables a specification does not use.
IdleRebase == rb_args = NoArgs /\ rb_result = NotCalled
IdleFill == fill_data = <<>> /\ fill_end = None /\ fill_out = NotCalled
NoCalculator ==
    [pc |-> "none", rates |-> 0, i |-> 0, by_date |-> <<>>, given |-> <<>>,
     built |-> <<>>]
IdleCalc == heap = <<>> /\ pool = 0 /\ calc = NoCalculator /\ calls = <<>>
NoRun ==
    [pc |-> "none", start_date |-> 0, end_date |-> 0, k |-> 0, tries |-> 0,
     rates |-> <<>>, request |-> None, responses |-> <<>>, warnings |-> <<>>,
     records |-> <<>>, emitted |-> 0, previous_end_date |-> None, error |-> "none"]
NoConfig == [currencies |-> <<>>, start_date |-> None, end_date |-> None]
IdleStream ==
    state = [end_date |-> None] /\ config = NoConfig /\ today = 0 /\ run = NoRun

---------------------------------------------------------------------------
(* ExchangeRate.rebase applied to every observation, new base and lookup *)

RebaseCurrencies == {"EUR", "USD", "GBP"}
RebaseObservations ==
    {ExchangeRate(1, b, t, r) : b \in RebaseCurrencies, t \in RebaseCurrencies,
                                r \in ExchangeRates}

InitRebase ==
    /\ rb_args \in [self : RebaseObservations, new_base_currency : RebaseCurrencies,
                    lookup_rate : RebaseObservations]
    /\ rb_result = NotCalled
    /\ IdleFill /\ IdleCalc /\ IdleStream

CallRebase ==
    /\ rb_result = NotCalled
    /\ rb_result' = Rebase(rb_args.self, rb_args.new_base_currency, rb_args.lookup_rate)
    /\ UNCHANGED <<rb_args, fill_data, fill_end, fill_out, heap, pool, calc, calls,
                   state, config, today, run>>

NextRebase == CallRebase

SpecRebase == InitRebase /\ [][NextRebase]_vars

\* The lookup does not express the observation's base in new_base_currency.
LookupMismatch ==
    \/ rb_args.lookup_rate.base_currency # rb_args.self.base_currency
    \/ rb_args.lookup_rate.target_currency # rb_args.new_base_currency

RebaseCalled == rb_result.kind # "none"

\* C5 as stated: rebase raises whenever the lookup does not match, for every
\* observation, every new base and every lookup.
C5_RaisesOnEveryMismatch ==
    (RebaseCalled /\ LookupMismatch) => rb_result.kind = "raise"

\* C5 amended: rebase raises ValueError, returning no observation, whenever
\* new_base_currency differs from the observation's base and the lookup does
\* not match; when new_base_currency is the observation's own base it returns
\* the observation unchanged whatever the lookup is.
C5_RaisesOnMismatchUnlessOwnBase ==
    RebaseCalled =>
        /\ (rb_args.new_base_currency = rb_args.self.base_currency)
              => (rb_result.kind = "return" /\ rb_result.value = rb_args.self)
        /\ (rb_args.new_base_currency # rb_args.self.base_currency /\ LookupMismatch)
              => (rb_result.kind = "raise" /\ rb_result.value = "ValueError")

C5_Witness ==
    /\ RebaseCalled
    /\ LookupMismatch
    /\ rb_args.new_base_currency # rb_args.self.base_currency
    /\ rb_args.lookup_rate.target_currency = rb_args.new_base_currency
    /\ rb_result.kind = "raise"

---------------------------------------------------------------------------
(* _fill_missing_dates applied to every input of one (pivot, target) pair *)

FillDates == 1 .. 4
FillEndDates == 0 .. 6
FillToday == 5
FillEntries == {ExchangeRate(d, Pivot, "USD", r) : d \in FillDates, r \in ExchangeRates}

RECURSIVE SeqsUpTo(_, _)
SeqsUpTo(S, n) ==
    IF n = 0 THEN {<<>>}
    ELSE LET shorter == SeqsUpTo(S, n - 1)
         IN  shorter \cup {Append(s, x) : s \in shorter, x \in S}

InitFill ==
    /\ fill_data \in SeqsUpTo(FillEntries, MaxData)
    /\ fill_end \in {Some(d) : d \in FillEndDates} \cup {None}
    /\ fill_out = NotCalled
    /\ today = FillToday
    /\ state = [end_date |-> None] /\ config = NoConfig /\ run = NoRun
    /\ IdleRebase /\ IdleCalc

CallFillMissingDates ==
    /\ fill_out.kind = "none"
    /\ fill_out' = FillMissingDates(fill_data, fill_end, today)
    /\ UNCHANGED <<rb_args, rb_result, fill_data, fill_end, heap, pool, calc, calls,
                   state, config, today, run>>

NextFill == CallFillMissingDates

SpecFill == InitFill /\ [][NextFill]_vars

FillInputDates == {fill_data[i].date : i \in DOMAIN fill_data}
FillEarliest == CHOOSE d \in FillInputDates : \A x \in FillInputDates : d <= x

\* The input entry whose rate day d carries: the entry dated d or, failing
\* that, the entry of the latest date before d; of several entries of one date
\* the last listed.
FillSource(d) ==
    LET known == {x \in FillInputDates : x <= d}
        latest == CHOOSE x \in known : \A y \in known : y <= x
        i == CHOOSE k \in DOMAIN fill_data :
                /\ fill_data[k].date = latest
                /\ \A j \in DOMAIN fill_data : fill_data[j].date = latest => j <= k
    IN  fill_data[i]

\* C1: for a non-empty input and an explicit end_date the output holds exactly
\* one observation for every day from the earliest input date through end_date,
\* in increasing date order without gaps or duplicates, each carrying the rate
\* of the input entry of its date or else of the latest earlier date; the
\* output is empty when end_date precedes the earliest input date.
C1_DenseCarryForward ==
    (fill_out.kind # "none" /\ fill_data # <<>> /\ fill_end # None) =>
        LET out == fill_out.complete_data
        IN  /\ fill_out.kind = "return"
            /\ Len(out) = (IF fill_end[1] < FillEarliest THEN 0
                           ELSE fill_end[1] - FillEarliest + 1)
            /\ \A i \in DOMAIN out :
                  /\ out[i].date = FillEarliest + i - 1
                  /\ out[i].base_currency = FillSource(out[i].date).base_currency
                  /\ out[i].target_currency = FillSource(out[i].date).target_currency
                  /\ out[i].exchange_rate = FillSource(out[i].date).exchange_rate

\* A filled day that follows a day of another rate and is itself no input date.
C1_Witness ==
    /\ fill_out.kind = "return"
    /\ fill_end # None
    /\ \E i \in DOMAIN fill_out.complete_data :
          /\ i > 2
          /\ fill_out.complete_data[i].date \notin FillInputDates
          /\ fill_out.complete_data[i].exchange_rate
                # fill_out.complete_data[1].exchange_rate
          /\ fill_out.complete_data[i].date = fill_end[1]

---------------------------------------------------------------------------
(* The calculator on every pool: construction, then calls *)

PoolPairs == <<<<"EUR", "USD">>, <<"EUR", "GBP">>, <<"EUR", "JPY">>,
               <<"USD", "EUR">>, <<"EUR", "EUR">>>>
PoolDates == {1, 2}
\* Pivot rates of three currencies at every rate, and at one rate an inverse
\* the caller already holds and a rate of the pivot to itself.
PoolObservations ==
    {ExchangeRate(d, Pivot, t, r) :
        t \in {"USD", "GBP", "JPY"}, d \in PoolDates, r \in ExchangeRates}
    \cup {ExchangeRate(d, "USD", Pivot, RateList[1]) : d \in PoolDates}
    \cup {ExchangeRate(d, Pivot, Pivot, RateList[2]) : d \in PoolDates}

\* The caller lists its observations pair by pair, each pair by date.
PoolKey(o) ==
    LET k == CHOOSE k \in DOMAIN PoolPairs :
                PoolPairs[k] = <<o.base_currency, o.target_currency>>
        n == CHOOSE n \in DOMAIN RateList : RateList[n] = o.exchange_rate
    IN  (k * 4 + o.date) * 4 + n

RequestedCurrencies ==
    {<<"USD", "GBP", "JPY">>, <<"EUR", "USD", "GBP">>, <<"USD", "USD">>}

\* The inversion loop is cut off once the list is this long: longer than any
\* list a terminating construction builds.
MaxWork == 2 * MaxPool + 2

InitCalc ==
    /\ heap = <<<<>>>>
    /\ pool = 1
    /\ calc = NoCalculator
    /\ calls = <<>>
    /\ IdleRebase /\ IdleFill /\ IdleStream

\* The caller appends an observation to its list.
ExtendPool ==
    /\ calc.pc = "none"
    /\ Len(heap[pool]) < MaxPool
    /\ \E o \in PoolObservations :
          /\ IF heap[pool] = <<>> THEN TRUE
             ELSE PoolKey(heap[pool][Len(heap[pool])]) < PoolKey(o)
          /\ heap' = [heap EXCEPT ![pool] = Append(@, o)]
    /\ UNCHANGED <<rb_args, rb_result, fill_data, fill_end, fill_out, pool, calc,
                   calls, state, config, today, run>>

\* RateCalculator(rates) up to the first loop: self.rates = rates.copy()
Construct ==
    /\ calc.pc = "none"
    /\ LET c == ListCopy(heap, pool)
       IN  /\ heap' = c.heap
           /\ calc' = [calc EXCEPT !.pc = "inverting", !.rates = c.ref, !.i = 1,
                                   !.given = heap[pool]]
    /\ UNCHANGED <<rb_args, rb_result, fill_data, fill_end, fill_out, pool, calls,
                   state, config, today, run>>

\* One iteration of the inversion loop.
InvertStep ==
    /\ calc.pc = "inverting"
    /\ calc.i <= Len(heap[calc.rates])
    /\ Len(heap[calc.rates]) < MaxWork
    /\ heap' = [heap EXCEPT ![calc.rates] = InvertIteration(@, calc.i)]
    /\ calc' = [calc EXCEPT !.i = @ + 1]
    /\ UNCHANGED <<rb_args, rb_result, fill_data, fill_end, fill_out, pool, calls,
                   state, config, today, run>>

\* The inversion loop ends; self.by_date is built and the constructor returns.
BuildByDate ==
    /\ calc.pc = "inverting"
    /\ calc.i > Len(heap[calc.rates])
    /\ calc' = [calc EXCEPT !.pc = "ready",
                            !.by_date = GroupByDate(heap[calc.rates], 1, <<>>),
                            !.built = heap[calc.rates]]
    /\ UNCHANGED <<rb_args, rb_result, fill_data, fill_end, fill_out, heap, pool,
                   calls, state, config, today, run>>

\* calculate_rebased_rates(currencies)
Calculate ==
    /\ calc.pc = "ready"
    /\ Len(calls) < MaxCalls
    /\ \E currencies \in RequestedCurrencies :
          LET c == ListCopy(heap, calc.rates)
              d == DerivedRates(calc.by_date, currencies)
          IN  IF d.kind = "raise"
              THEN /\ heap' = c.heap
                   /\ calls' = Append(calls, [currencies |-> currencies, kind |-> "raise",
                                              result |-> 0, warnings |-> d.warnings])
              ELSE /\ heap' = [c.heap EXCEPT ![c.ref] = @ \o d.derived]
                   /\ calls' = Append(calls, [currencies |-> currencies, kind |-> "return",
                                              result |-> c.ref, warnings |-> d.warnings])
    /\ UNCHANGED <<rb_args, rb_result, fill_data, fill_end, fill_out, pool, calc,
                   state, config, today, run>>

NextCalc == ExtendPool \/ Construct \/ InvertStep \/ BuildByDate \/ Calculate

SpecCalc == InitCalc /\ [][NextCalc]_vars

Range(seq) == {seq[i] : i \in DOMAIN seq}

DistinctTriples(seq) ==
    \A i, j \in DOMAIN seq : i # j => Triple(seq[i]) # Triple(seq[j])

IsPivotRate(o, target, date) ==
    o.base_currency = Pivot /\ o.target_currency = target /\ o.date = date

HasPivotRate(seq, target, date) ==
    \E i \in DOMAIN seq : IsPivotRate(seq[i], target, date)

\* rate(pivot, target, date): of several pool entries of one triple, the one
\* the lookup table keeps.
PivotRate(seq, target, date) ==
    seq[LastIndex({i \in DOMAIN seq : IsPivotRate(seq[i], target, date)})].exchange_rate

ReturnedCalls == {n \in DOMAIN calls : calls[n].kind = "return"}
ResultOf(n) == heap[calls[n].result]
\* What call n appended to its copy of the working set.
DerivedOf(n) == SubSeq(ResultOf(n), Len(calc.built) + 1, Len(ResultOf(n)))
NonPivot(currencies) == Range(currencies) \ {Pivot}

\* |x * b - a| <= (2u + u^2) * a  with u = 2^-Prec: x is a / b after two roundings.
WithinTwoRoundings(x, a, b) ==
    LET lo == IF x.e + b.e < a.e THEN x.e + b.e ELSE a.e
        xb == x.m * b.m * Pow2(x.e + b.e - lo)
        aa == a.m * Pow2(a.e - lo)
    IN  Abs(xb - aa) * Pow2(2 * Prec) <= (Pow2(Prec + 1) + 1) * aa

\* |p - 1| <= 6u  with u = 2^-Prec.
NearOne(p) ==
    LET lo == IF p.e < 0 THEN p.e ELSE 0
    IN  Abs(p.m * Pow2(p.e - lo) - Pow2(0 - lo)) * Pow2(Prec) <= 6 * Pow2(0 - lo)

Reciprocal(o1, o2) ==
    /\ o1.date = o2.date
    /\ o1.base_currency = o2.target_currency
    /\ o1.target_currency = o2.base_currency

\* C2 as stated: every derived observation for base B, target T and date d has
\* rate exactly rate(pivot,T,d) / rate(pivot,B,d), and the rates of B->T and
\* T->B of one date multiply to exactly 1.
C2_ExactQuotient ==
    \A n \in ReturnedCalls :
        DistinctTriples(calc.given) =>
            /\ \A o \in Range(DerivedOf(n)) :
                  o.exchange_rate =
                      FDiv(PivotRate(calc.given, o.target_currency, o.date),
                           PivotRate(calc.given, o.base_currency, o.date))
            /\ \A o1, o2 \in Range(DerivedOf(n)) :
                  Reciprocal(o1, o2) => FMul(o1.exchange_rate, o2.exchange_rate) = One

\* C2 amended: every derived observation has a requested non-pivot base B, a
\* target T and a date d for which the pool holds pivot->T and pivot->B, and
\* its rate is (1 / rate(pivot,B,d)) * rate(pivot,T,d) in floating point, each
\* operation rounded: the quotient rate(pivot,T,d) / rate(pivot,B,d) up to a
\* relative error of 2u + u^2; when the pool's triples are distinct, the
\* floating-point product of the B->T and T->B rates of one date is within 6u
\* of 1 (u the unit roundoff), not always 1.
C2_RoundedQuotient ==
    \A n \in ReturnedCalls :
        /\ \A o \in Range(DerivedOf(n)) :
              /\ o.base_currency \in NonPivot(calls[n].currencies)
              /\ o.base_currency # o.target_currency
              /\ HasPivotRate(calc.given, o.base_currency, o.date)
              /\ \E i \in DOMAIN calc.given :
                    LET a == calc.given[i].exchange_rate
                        b == PivotRate(calc.given, o.base_currency, o.date)
                    IN  /\ IsPivotRate(calc.given[i], o.target_currency, o.date)
                        /\ o.exchange_rate = FMul(FDiv(One, b), a)
                        /\ WithinTwoRoundings(o.exchange_rate, a, b)
        /\ DistinctTriples(calc.given) =>
              \A o1, o2 \in Range(DerivedOf(n)) :
                  Reciprocal(o1, o2) => NearOne(FMul(o1.exchange_rate, o2.exchange_rate))

\* Both directions of a cross rate derived from two different pivot rates.
C2_Witness ==
    \E n \in ReturnedCalls :
        /\ DistinctTriples(calc.given)
        /\ \E o1, o2 \in Range(DerivedOf(n)) :
              /\ Reciprocal(o1, o2)
              /\ o1.exchange_rate # o2.exchange_rate
              /\ o1.exchange_rate # One

\* C3: for a pool of pairwise distinct (date, base, target) triples and any
\* requested currency list, the returned list holds no two observations of
\* one (date, base, target).
C3_NoDuplicateTriples ==
    \A n \in ReturnedCalls :
        DistinctTriples(calc.given) => DistinctTriples(ResultOf(n))

\* C4: for every date d and every ordered pair (A, B) of distinct currencies
\* among the pivot and the requested ones, if the pool holds a pivot rate at d
\* for each non-pivot member of the pair, the output holds an observation
\* dated d with base A and target B.
C4_FullCoverage ==
    \A n \in ReturnedCalls :
        \A d \in PoolDates :
            \A A, B \in {Pivot} \cup Range(calls[n].currencies) :
                (/\ A # B
                 /\ \A X \in {A, B} \ {Pivot} : HasPivotRate(calc.given, X, d))
                => \E o \in Range(ResultOf(n)) : Triple(o) = <<d, A, B>>

\* Three non-pivot currencies on one date: all six cross pairs are present.
C4_Witness ==
    \E n \in ReturnedCalls :
        /\ Cardinality(NonPivot(calls[n].currencies)) = 3
        /\ \E d \in PoolDates :
              /\ \A X \in NonPivot(calls[n].currencies) : HasPivotRate(calc.given, X, d)
              /\ \A A, B \in NonPivot(calls[n].currencies) :
                    A # B => \E o \in Range(DerivedOf(n)) : Triple(o) = <<d, A, B>>

\* C6: calculate_rebased_rates always returns; for a date d and a requested
\* non-pivot base B whose pivot->B rate is absent at d nothing is derived for
\* (d, B) and a warning names (B, d), while every pivot-based observation of
\* any date whose lookup exists is rebased to every requested base other than
\* its own target; rebase never raises inside it.
C6_NeverAborts ==
    \A n \in DOMAIN calls :
        /\ calls[n].kind = "return"
        /\ \A B \in NonPivot(calls[n].currencies) :
              \A d \in PoolDates :
                  IF HasPivotRate(calc.built, B, d)
                  THEN \A r \in Range(calc.built) :
                          (r.date = d /\ r.base_currency = Pivot /\ r.target_currency # B)
                          => \E o \in Range(DerivedOf(n)) :
                                /\ Triple(o) = <<d, B, r.target_currency>>
                                /\ o.exchange_rate =
                                      FMul(FDiv(One, PivotRate(calc.built, B, d)),
                                           r.exchange_rate)
                  ELSE /\ \A o \in Range(DerivedOf(n)) :
                              ~(o.date = d /\ o.base_currency = B)
                       /\ (\E r \in Range(calc.built) :
                              r.date = d /\ r.base_currency = Pivot)
                          => \E k \in DOMAIN calls[n].warnings :
                                calls[n].warnings[k] = <<B, d>>

\* A base with no lookup on one date is warned of and skipped there while
\* rates of the other date are derived for it.
C6_Witness ==
    \E n \in ReturnedCalls :
        \E B \in NonPivot(calls[n].currencies) :
            \E d1, d2 \in PoolDates :
                /\ <<B, d1>> \in Range(calls[n].warnings)
                /\ \E o \in Range(DerivedOf(n)) : o.date = d2 /\ o.base_currency = B

\* C8: construction leaves the caller's list as it was given, calls leave
\* self.rates and self.by_date as construction built them, and every call
\* returns a list of its own that holds every observation of the pool and, for
\* the same currencies, the same observations as the first such call.
C8_NoSharedMutableState ==
    /\ calc.pc # "none" => heap[pool] = calc.given
    /\ calc.pc = "ready" =>
          /\ heap[calc.rates] = calc.built
          /\ calc.by_date = GroupByDate(calc.built, 1, <<>>)
    /\ \A n \in ReturnedCalls :
          /\ calls[n].result \notin {pool, calc.rates}
          /\ Range(calc.given) \subseteq Range(ResultOf(n))
          /\ \A k \in ReturnedCalls :
                k < n =>
                    /\ calls[k].result # calls[n].result
                    /\ calls[k].currencies = calls[n].currencies
                          => Range(ResultOf(k)) = Range(ResultOf(n))

\* Two calls with the same currencies, each deriving cross rates.
C8_Witness ==
    \E k, n \in ReturnedCalls :
        /\ k < n
        /\ calls[k].currencies = calls[n].currencies
        /\ Len(ResultOf(n)) > Len(calc.built)
        /\ calc.given # <<>>

PivotBased(seq) == SelectSeq(seq, LAMBDA o : o.base_currency = Pivot)

\* C10: construction ends with the working set being the pool plus one inverse
\* for each pool observation based on the pivot; no appended inverse is
\* inverted again, so the list never grows beyond that.
C10_OneInversePerPivotRate ==
    /\ calc.pc \in {"inverting", "ready"} =>
          Len(heap[calc.rates]) <= Len(calc.given) + Len(PivotBased(calc.given))
    /\ calc.pc = "ready" =>
          calc.built = calc.given \o
              [i \in DOMAIN PivotBased(calc.given) |-> Invert(PivotBased(calc.given)[i])]

---------------------------------------------------------------------------
(* The stream over any sequence of runs *)

FirstToday == StrpTime(<<2000, 1, 6>>)
LastToday == StrpTime(<<2000, 1, 7>>)
Statuses == {200, 404, 429, 500}

\* The dates the service may hold observations for, within the period asked.
ObservedDates(start_period, end_period) ==
    {d \in {StrpTime(start_period), StrpTime(end_period) - 1, StrpTime(end_period)} :
        StrpTime(start_period) <= d /\ d <= StrpTime(end_period)}

\* The observations of a response: none, one, or two in date order.
ResponseData(start_period, end_period) ==
    LET dates == ObservedDates(start_period, end_period)
    IN  {<<>>}
        \cup {<<<<StrfTime(d), r>>>> : d \in dates, r \in ExchangeRates}
        \cup UNION {{<<<<StrfTime(d1), RateList[1]>>, <<StrfTime(d2), r>>>> :
                        d2 \in {d \in dates : d > d1}, r \in ExchangeRates} :
                    d1 \in dates}

InitStream ==
    /\ state = [end_date |-> None]
    /\ config \in [currencies : {<<"USD", "GBP">>},
                   start_date : {None, Some(<<2000, 1, 4>>)},
                   end_date : {None, Some(<<2000, 1, 6>>)}]
    /\ today = FirstToday
    /\ run = NoRun
    /\ IdleRebase /\ IdleFill /\ IdleCalc

\* A run that has ended, by return or by exception: its locals are gone.
Ended(r) ==
    [r EXCEPT !.rates = <<>>, !.responses = <<>>, !.warnings = <<>>, !.records = <<>>]

\* A day passes between runs.
Tick ==
    /\ run.pc \in {"none", "done", "raised"}
    /\ today < LastToday
    /\ today' = today + 1
    /\ UNCHANGED <<rb_args, rb_result, fill_data, fill_end, fill_out, heap, pool, calc,
                   calls, state, config, run>>

\* get_records up to its loop over the currencies.
StartRun ==
    /\ run.pc \in {"none", "done", "raised"}
    /\ run' = [NoRun EXCEPT !.pc = "fetching",
                            !.start_date = StartDate(state.end_date, config),
                            !.end_date = EndDate(config, today),
                            !.k = 1,
                            !.previous_end_date = state.end_date]
    /\ UNCHANGED <<rb_args, rb_result, fill_data, fill_end, fill_out, heap, pool, calc,
                   calls, state, config, today>>

\* One try of client.get_exchange_rates for the k-th currency: it returns and
\* the loop goes on, or it raises and backoff tries again or gives up.
Fetch ==
    /\ run.pc = "fetching"
    /\ run.k <= Len(config.currencies)
    /\ \E status \in Statuses, gives_up \in BOOLEAN :
       \E data \in ResponseData(StrfTime(run.start_date), StrfTime(run.end_date)) :
          LET request == [currency |-> config.currencies[run.k],
                          startPeriod |-> StrfTime(run.start_date),
                          endPeriod |-> StrfTime(run.end_date)]
              response == [status |-> status, data |-> data]
              got == GetExchangeRates(config.currencies[run.k], run.end_date, response)
              sent == [run EXCEPT !.request = Some(request)]
          IN  /\ status = 200 => ~gives_up
              /\ status # 200 => data = <<>>
              /\ run' =
                   IF got.kind = "return"
                   THEN [sent EXCEPT !.rates = @ \o got.complete_data,
                                     !.responses = Append(@, data),
                                     !.warnings = @ \o
                                         [i \in DOMAIN got.warnings |->
                                             <<config.currencies[run.k], got.warnings[i]>>],
                                     !.k = @ + 1,
                                     !.tries = 0]
                   ELSE IF got.value = "HTTPError" /\ run.tries + 1 < max_tries
                           /\ ~gives_up
                   THEN [sent EXCEPT !.tries = @ + 1]
                   ELSE Ended([sent EXCEPT !.pc = "raised", !.error = got.value])
    /\ UNCHANGED <<rb_args, rb_result, fill_data, fill_end, fill_out, heap, pool, calc,
                   calls, state, config, today>>

\* After the loop: the checkpoint, the calculator, and the generator's first
\* yield (or its end, when there is nothing to yield).
FinishFetches ==
    /\ run.pc = "fetching"
    /\ run.k > Len(config.currencies)
    /\ state' = [state EXCEPT !.end_date = Some(StrfTime(run.end_date))]
    /\ LET all_rates == AllRates(run.rates, config.currencies)
       IN  run' = IF Len(all_rates) <= 1
                  THEN Ended([run EXCEPT !.emitted = Len(all_rates), !.pc = "done"])
                  ELSE [run EXCEPT !.records = all_rates, !.emitted = 1,
                                   !.pc = "emitting"]
    /\ UNCHANGED <<rb_args, rb_result, fill_data, fill_end, fill_out, heap, pool, calc,
                   calls, config, today>>

\* The generator yields its next record.
EmitRecord ==
    /\ run.pc = "emitting"
    /\ run' = IF run.emitted + 1 = Len(run.records)
               THEN Ended([run EXCEPT !.emitted = @ + 1, !.pc = "done"])
               ELSE [run EXCEPT !.emitted = @ + 1]
    /\ UNCHANGED <<rb_args, rb_result, fill_data, fill_end, fill_out, heap, pool, calc,
                   calls, state, config, today>>

NextStream == Tick \/ StartRun \/ Fetch \/ FinishFetches \/ EmitRecord

SpecStream == InitStream /\ [][NextStream]_vars

\* The earliest date the j-th response of the run knows a rate for.
EarliestKnown(j) ==
    LET known == {StrpTime(run.responses[j][i][1]) : i \in DOMAIN run.responses[j]}
    IN  CHOOSE d \in known : \A x \in known : d <= x

\* C7: when the requested range starts before the earliest date a currency has
\* a rate for, no observation is emitted for the days before that date, the
\* observations begin at that date, and a missing-history warning is surfaced
\* for each of those days.
C7_MissingHistoryWarned ==
    \A j \in DOMAIN run.responses :
        LET currency == config.currencies[j]
            dated == {o.date : o \in {x \in Range(run.rates) :
                                        x.target_currency = currency}}
        IN  run.start_date < EarliestKnown(j) =>
                /\ \A d \in dated : d >= EarliestKnown(j)
                /\ EarliestKnown(j) <= run.end_date => EarliestKnown(j) \in dated
                /\ \A d \in run.start_date .. (EarliestKnown(j) - 1) :
                      <<currency, d>> \in Range(run.warnings)

=============================================================================
